---- MODULE Spec2Model ----
(***************************************************************************)
(* The three-stage market-research pipeline of delightech/aiwf:            *)
(* collect cases -> enrich with metrics -> summarize and notify, in its    *)
(* two variants (market-research and commerce-influencer), together with   *)
(* the structured generation adapter and the runner entry point.           *)
(*                                                                         *)
(* One run is modelled from the call of the runner to its return or throw. *)
(* Every await of an outbound call (LLM, webhook) is a point where the run *)
(* is suspended; the code between two awaits is one action.                *)
(*                                                                         *)
(* Two libraries sit at the boundary and are modelled by the contract the  *)
(* source states for them:                                                 *)
(*  - the workflow engine runs the steps of the .then chain in order,      *)
(*    checks the data handed to a step against the step's inputSchema      *)
(*    before entering execute ("a schema mismatch is an error"), and ends  *)
(*    the run failed with the error a step threw;                          *)
(*  - generateObject resolves only with an object of the schema it was     *)
(*    given ("JSON that strictly follows the schema") and rejects          *)
(*    otherwise; the adapter itself adds no check in that branch.          *)
(***************************************************************************)
EXTENDS Integers, Sequences, FiniteSets, TLC

VARIABLES
    variant,        \* which workflow file is deployed: "market" or "commerce"
    MODEL_NAME,     \* env.OPENAI_MODEL, a string as a sequence of characters
    slackWebhook,   \* TRUE iff env.SLACK_WEBHOOK_URL is set (client not null)
    status,         \* state of the run inside the workflow engine
    input,          \* the merged input handed to run.start
    s1In, s1Out,    \* Stage 1 inputData / returned value
    s2In, s2Out,    \* Stage 2 inputData / returned value
    s3In,           \* Stage 3 inputData
    started,        \* per stage: number of times its execute was entered
    llmCalls,       \* outbound model calls issued in this run
    webhookCalls,   \* outbound webhook deliveries issued in this run
    collectResp,    \* the response the LLM service gave to Stage 1's call
    enrichResp,     \* the response the LLM service gave to Stage 2's call
    payload,        \* the argument of slackWebhook.send, once called
    delivery,       \* the webhook call: "none", "pending", "ok" or "failed"
    summary,        \* Stage 3's local `summary` while the delivery is pending
    warned,         \* TRUE once Stage 3 emitted the "skipped" warning
    adapter,        \* per model-calling stage: the adapter's branch and the
                    \* number of schema.parse calls the adapter made itself
    thrown,         \* the error raised by the failing stage
    execution,      \* what run.start resolved to
    caller          \* what the runner gave back to its caller

vars == <<variant, MODEL_NAME, slackWebhook, status, input, s1In, s1Out, s2In,
          s2Out, s3In, started, llmCalls, webhookCalls, collectResp, enrichResp,
          payload, delivery, summary, warned, adapter, thrown, execution,
          caller>>

(***************************************************************************)
(* Bounds of the model.                                                    *)
(***************************************************************************)
\* longest case list of arbitrary (mixed) cases a model response carries
MaxMixLen == 2
\* longest case list a Stage 1 response carries
MaxCollected == 7
\* longest case list a Stage 2 response carries
MaxEnriched == 51

(***************************************************************************)
(* Program constants.                                                      *)
(***************************************************************************)
\* caseListSchema: z.array(baseCaseSchema).max(6)
MaxCases == 6
\* [header, ...sections].slice(0, 50)
BlockLimit == 50

\* An optional value (an optional key of an object, a variable not yet
\* assigned) is a sequence of length 0 (absent) or 1 (present).
Absent == <<>>
Some(x) == <<x>>
Has(o) == Len(o) = 1
Val(o) == o[1]

Min(a, b) == IF a < b THEN a ELSE b

(***************************************************************************)
(* Strings whose content matters are sequences of characters.              *)
(***************************************************************************)
includes(s, sub) ==
    \E i \in 1..(Len(s) - Len(sub) + 1) : SubSeq(s, i, i + Len(sub) - 1) = sub

startsWith(s, prefix) ==
    Len(s) >= Len(prefix) /\ SubSeq(s, 1, Len(prefix)) = prefix

Str_search == <<"s","e","a","r","c","h">>
Str_gpt5 == <<"g","p","t","-","5">>

ModelNames ==
    { <<"g","p","t","-","4","o","-","m","i","n","i">>,
      <<"g","p","t","-","5","-","m","i","n","i">>,
      <<"g","p","t","-","4","o","-","s","e","a","r","c","h">>,
      <<"f","t",":","g","p","t","-","5">> }

\* a market-research predicate that forgets the gpt-5 series
isNonStructuredModel_SearchOnly(name) == includes(name, Str_search)

\* market-research: includes('search') || startsWith('gpt-5')
isNonStructuredModel(name) == includes(name, Str_search) \/ startsWith(name, Str_gpt5)

\* commerce-influencer: includes('search')
isSearchModel(name) == includes(name, Str_search)

\* the branch generateStructuredObject takes: TRUE = generateText + parse
TextMode(v, name) ==
    IF v = "market" THEN isNonStructuredModel(name) ELSE isSearchModel(name)

ModeName(textMode) == IF textMode THEN "text" ELSE "structured"

(***************************************************************************)
(* Data: influencers, metrics, cases.  A case carries the keys the schemas *)
(* constrain; brand stands for the required strings (brand, campaignName,  *)
(* geography), summary is kept apart because Stage 3 renders it on a line  *)
(* of its own.  The optional strings of a case are not modelled.           *)
(***************************************************************************)
inf1 == [name |-> "creator"]

m1 == [metric |-> "GMV", value |-> "120M", currency |-> Some("JPY"),
       timeframe |-> Some("2023"), note |-> Absent]
m2 == [metric |-> "CVR", value |-> "unavailable", currency |-> Absent,
       timeframe |-> Absent, note |-> Some("not disclosed")]

\* well-formed base cases: A has sources, B has none
gA == [brand |-> Some("A"), summary |-> "sa", influencers |-> Some(<<inf1>>),
       sources |-> Some(<<"u1", "u2">>), metrics |-> Absent]
gB == [brand |-> Some("B"), summary |-> "sb", influencers |-> Some(<<inf1>>),
       sources |-> Absent, metrics |-> Absent]
\* well-formed enriched cases
eA == [gA EXCEPT !.metrics = Some(<<m1, m2>>)]
eB == [gB EXCEPT !.metrics = Some(<<m2>>)]
\* ill-formed cases
noInfluencers == [gA EXCEPT !.influencers = Some(<<>>)]
missingInfluencers == [gB EXCEPT !.influencers = Absent]
noMetrics == [gA EXCEPT !.metrics = Some(<<>>)]

\* the cases a Stage 1 / Stage 2 model response is drawn from
CollectCases == {gA, gB, noInfluencers, missingInfluencers}
EnrichCases == {eA, eB, gB, noMetrics}

RECURSIVE Rep(_, _)
Rep(c, n) == IF n = 0 THEN <<>> ELSE Append(Rep(c, n - 1), c)

SeqsUpTo(S, n) == UNION { [1..k -> S] : k \in 0..n }

\* the lengths of the long case lists tried, up to the longest
LongLens(max) == (max - 2)..max

(***************************************************************************)
(* What the LLM service can answer to one call: a failure of the call, a   *)
(* text that is no JSON, a JSON value without a "cases" array, or an       *)
(* object with a "cases" array.                                            *)
(***************************************************************************)
RespFailure == [kind |-> "failure", cases |-> Absent]
RespMalformed == [kind |-> "malformed", cases |-> Absent]
RespObject(l) == [kind |-> "object", cases |-> l]

CollectResponses ==
    {RespFailure, RespMalformed, RespObject(Absent)}
    \cup { RespObject(Some(l)) : l \in SeqsUpTo(CollectCases, MaxMixLen) }
    \cup { RespObject(Some(Rep(gA, n))) : n \in LongLens(MaxCollected) }
    \cup { RespObject(Some(<<eA>>)) }

EnrichResponses ==
    {RespFailure, RespMalformed, RespObject(Absent)}
    \cup { RespObject(Some(l)) : l \in SeqsUpTo(EnrichCases, MaxMixLen) }
    \cup { RespObject(Some(Rep(eA, n))) : n \in LongLens(MaxEnriched) }

(***************************************************************************)
(* Schema layer.  A parse yields [ok, value]; a zod object schema strips   *)
(* the keys it does not declare.                                           *)
(***************************************************************************)
Rejected == [ok |-> FALSE, value |-> Absent]
Accepted(v) == [ok |-> TRUE, value |-> Some(v)]

\* a base case schema whose influencers array has no .min(1)
baseCaseSchema_ok_NoMinInfluencers(c) ==
    /\ Has(c.brand)
    /\ Has(c.influencers)
    /\ Has(c.sources) => Len(Val(c.sources)) >= 1

\* baseCaseSchema
baseCaseSchema_ok(c) ==
    /\ Has(c.brand)
    /\ Has(c.influencers) /\ Len(Val(c.influencers)) >= 1
    /\ Has(c.sources) => Len(Val(c.sources)) >= 1

baseCaseSchema_value(c) == [c EXCEPT !.metrics = Absent]

\* an enriched case schema whose metrics array has no .min(1)
enrichedCaseSchema_ok_NoMinMetrics(c) ==
    /\ baseCaseSchema_ok(c)
    /\ Has(c.metrics)

\* enrichedCaseSchema = baseCaseSchema.extend({ metrics: array.min(1) })
enrichedCaseSchema_ok(c) ==
    /\ baseCaseSchema_ok(c)
    /\ Has(c.metrics) /\ Len(Val(c.metrics)) >= 1

enrichedCaseSchema_value(c) == c

\* a case list schema without the .max(6)
caseListSchema_NoMax(obj) ==
    IF /\ Has(obj.cases)
       /\ \A i \in 1..Len(Val(obj.cases)) : baseCaseSchema_ok(Val(obj.cases)[i])
    THEN Accepted([cases |-> [i \in 1..Len(Val(obj.cases)) |->
                                baseCaseSchema_value(Val(obj.cases)[i])]])
    ELSE Rejected

\* caseListSchema: { cases: z.array(baseCaseSchema).max(6) }
caseListSchema(obj) ==
    IF /\ Has(obj.cases)
       /\ Len(Val(obj.cases)) <= MaxCases
       /\ \A i \in 1..Len(Val(obj.cases)) : baseCaseSchema_ok(Val(obj.cases)[i])
    THEN Accepted([cases |-> [i \in 1..Len(Val(obj.cases)) |->
                                baseCaseSchema_value(Val(obj.cases)[i])]])
    ELSE Rejected

\* enrichedCaseListSchema: { cases: z.array(enrichedCaseSchema) }
enrichedCaseListSchema(obj) ==
    IF /\ Has(obj.cases)
       /\ \A i \in 1..Len(Val(obj.cases)) : enrichedCaseSchema_ok(Val(obj.cases)[i])
    THEN Accepted([cases |-> [i \in 1..Len(Val(obj.cases)) |->
                                enrichedCaseSchema_value(Val(obj.cases)[i])]])
    ELSE Rejected

SchemaParse(schema, obj) ==
    IF schema = "caseListSchema" THEN caseListSchema(obj)
    ELSE enrichedCaseListSchema(obj)

(***************************************************************************)
(* Errors.  An error is identified by its kind and the stage it arose in.  *)
(***************************************************************************)
Err(kind, stage) == [kind |-> kind, stage |-> stage]

(***************************************************************************)
(* Structured generation adapter.  The outcome of one call, given the      *)
(* response the LLM service gave: [ok, value, error].                      *)
(***************************************************************************)
Returned(v) == [ok |-> TRUE, value |-> Some(v), error |-> Absent]
Threw(e) == [ok |-> FALSE, value |-> Absent, error |-> Some(e)]

\* a text mode that answers an empty case list where the catch should throw
generateViaText_EmptyOnError(schema, resp, stage) ==
    IF resp.kind = "failure" THEN Threw(Err("UpstreamError", stage))
    ELSE IF resp.kind = "object" /\ SchemaParse(schema, resp).ok
         THEN Returned(Val(SchemaParse(schema, resp).value))
         ELSE Returned([cases |-> <<>>])

\* text mode: generateText, then JSON.parse and schema.parse inside try/catch;
\* the catch rethrows a new Error for a parse and for a schema failure alike,
\* a failure of generateText itself is outside the try and propagates
generateViaText(schema, resp, stage) ==
    IF resp.kind = "failure" THEN Threw(Err("UpstreamError", stage))
    ELSE IF resp.kind = "malformed" THEN Threw(Err("ParseError", stage))
    ELSE IF SchemaParse(schema, resp).ok
         THEN Returned(Val(SchemaParse(schema, resp).value))
         ELSE Threw(Err("ParseError", stage))

\* a structured mode that hands on whatever object the service answered
generateViaObject_Unchecked(schema, resp, stage) ==
    IF resp.kind = "failure" THEN Threw(Err("UpstreamError", stage))
    ELSE IF resp.kind = "object" /\ Has(resp.cases)
         THEN Returned([cases |-> Val(resp.cases)])
         ELSE Threw(Err("NoObjectGenerated", stage))

\* structured mode: generateObject is given the schema and resolves only with
\* an object of that schema ("schema-strict JSON"); the adapter returns it as is
generateViaObject(schema, resp, stage) ==
    IF resp.kind = "failure" THEN Threw(Err("UpstreamError", stage))
    ELSE IF resp.kind = "object" /\ SchemaParse(schema, resp).ok
         THEN Returned(Val(SchemaParse(schema, resp).value))
         ELSE Threw(Err("NoObjectGenerated", stage))

generateStructuredObject(textMode, schema, resp, stage) ==
    IF textMode THEN generateViaText(schema, resp, stage)
    ELSE generateViaObject(schema, resp, stage)

\* the params.schema.parse calls the adapter itself makes on one response:
\* one in the generateText branch once JSON.parse succeeded, none in the
\* generateObject branch
LocalParses(textMode, resp) ==
    IF textMode /\ resp.kind = "object" THEN 1 ELSE 0

NotCalled == [mode |-> "none", parses |-> 0]

(***************************************************************************)
(* Stage envelopes and the step schemas the engine checks a step's input   *)
(* against before it enters execute.                                       *)
(***************************************************************************)
Languages == {"ja", "en"}

\* the market-research input schema without the .min(1) on focusKeyword
collectCasesInput_ok_NoMinKeyword(in) ==
    /\ in.minExamples \in 1..MaxCases
    /\ in.language \in Languages
    /\ Len(in.metricFocus) >= 1

\* collectCasesStep.inputSchema (market-research): focusKeyword min(1)
collectCasesInput_ok(in) ==
    /\ in.focusKeyword # ""
    /\ in.minExamples \in 1..MaxCases
    /\ in.language \in Languages
    /\ Len(in.metricFocus) >= 1

\* collectCompetitorCasesStep.inputSchema (commerce-influencer): no min(1)
collectCompetitorCasesInput_ok(in) ==
    /\ in.minExamples \in 1..MaxCases
    /\ in.language \in Languages
    /\ Len(in.metricFocus) >= 1

Stage1Input(v, in) ==
    IF (IF v = "market" THEN collectCasesInput_ok(in)
                         ELSE collectCompetitorCasesInput_ok(in))
    THEN Accepted(in) ELSE Rejected

\* a Stage 2 input that is not Stage 1's output: the first case only
Stage2Input_FirstOnly(out) ==
    IF Len(out.cases) >= 1
    THEN Accepted([out EXCEPT !.cases = <<baseCaseSchema_value(out.cases[1])>>])
    ELSE Rejected

\* enrichCasesWithMetricsStep.inputSchema: cases array(baseCaseSchema).min(1)
Stage2Input(out) ==
    IF /\ Len(out.cases) >= 1
       /\ \A i \in 1..Len(out.cases) : baseCaseSchema_ok(out.cases[i])
       /\ Len(out.metricFocus) >= 1
       /\ out.language \in Languages
    THEN Accepted([out EXCEPT !.cases =
                     [i \in 1..Len(out.cases) |-> baseCaseSchema_value(out.cases[i])]])
    ELSE Rejected

\* summarizeAndNotifyStep.inputSchema: cases array(enrichedCaseSchema).min(1)
Stage3Input(out) ==
    IF /\ Len(out.cases) >= 1
       /\ \A i \in 1..Len(out.cases) : enrichedCaseSchema_ok(out.cases[i])
       /\ Len(out.metricFocus) >= 1
       /\ out.language \in Languages
    THEN Accepted([out EXCEPT !.cases =
                     [i \in 1..Len(out.cases) |-> enrichedCaseSchema_value(out.cases[i])]])
    ELSE Rejected

\* a stage return that sets the language to "ja" instead of forwarding it
StageReturn_Defaults(structured, inputData) ==
    [cases |-> structured.cases,
     metricFocus |-> inputData.metricFocus,
     language |-> "ja",
     includeSources |-> inputData.includeSources]

\* what collect / enrich execute return: the adapter's cases and the
\* carry-through fields of inputData
StageReturn(structured, inputData) ==
    [cases |-> structured.cases,
     metricFocus |-> inputData.metricFocus,
     language |-> inputData.language,
     includeSources |-> inputData.includeSources]

(***************************************************************************)
(* Stage 3 rendering.  A text is the sequence of its lines; a line is      *)
(* [k, n, s]: its kind, the case number it carries (0 if none) and its     *)
(* parts in order.                                                         *)
(***************************************************************************)
Line(k, n, s) == [k |-> k, n |-> n, s |-> s]

RECURSIVE Flatten(_)
Flatten(ss) == IF ss = <<>> THEN <<>> ELSE Flatten(SubSeq(ss, 1, Len(ss) - 1)) \o ss[Len(ss)]

\* entries.join('\n\n'): one empty line between two entries
JoinBlank(entries) ==
    Flatten([i \in 1..Len(entries) |->
               IF i = 1 THEN entries[i] ELSE <<Line("blank", 0, <<>>)>> \o entries[i]])

\* the Japanese labels are written in Latin letters here
bulletLabel(language) == IF language = "ja" THEN "Shuyo KPI" ELSE "Key KPIs"
sourcesLabel(language) == IF language = "ja" THEN "Sanko" ELSE "Sources"

\* `- ${metric}: ${value}${currency ? ...}${timeframe ? ...}${note ? ...}`
MetricLine(m) ==
    Line("metric", 0,
         <<m.metric, ": ", m.value>>
         \o (IF Has(m.currency) THEN <<" ", Val(m.currency)>> ELSE <<>>)
         \o (IF Has(m.timeframe) THEN <<" (", Val(m.timeframe), ")">> ELSE <<>>)
         \o (IF Has(m.note) THEN <<"|", Val(m.note)>> ELSE <<>>))

\* a sources line that does not look at includeSources
SourcesLines_Always(c, language, includeSources) ==
    IF Has(c.sources) /\ Len(Val(c.sources)) > 0
    THEN <<Line("sources", 0, <<sourcesLabel(language)>> \o Val(c.sources))>>
    ELSE <<>>

\* includeSources && c.sources?.length ? `\n${label}: ${urls}` : ''
SourcesLines(c, language, includeSources) ==
    IF includeSources /\ Has(c.sources) /\ Len(Val(c.sources)) > 0
    THEN <<Line("sources", 0, <<sourcesLabel(language)>> \o Val(c.sources))>>
    ELSE <<>>

\* one numbered entry of the summary
SummaryEntry(c, idx, language, includeSources) ==
    <<Line("title", idx, <<Val(c.brand)>>),
      Line("text", 0, <<c.summary>>),
      Line("label", 0, <<bulletLabel(language)>>)>>
    \o [j \in 1..Len(Val(c.metrics)) |-> MetricLine(Val(c.metrics)[j])]
    \o SourcesLines(c, language, includeSources)

RenderSummary(cases, language, includeSources) ==
    JoinBlank([i \in 1..Len(cases) |->
                 SummaryEntry(cases[i], i, language, includeSources)])

\* a block of the chat payload
HeaderBlock(language) ==
    [type |-> "header", n |-> 0,
     text |-> <<IF language = "ja" THEN "Tasha jirei" ELSE "Commerce x Influencer Scan">>]

SectionBlock(c, idx, language) ==
    [type |-> "section", n |-> idx,
     text |-> <<Val(c.brand), c.summary, bulletLabel(language)>>
              \o Flatten([j \in 1..Len(Val(c.metrics)) |->
                            <<Val(c.metrics)[j].metric, Val(c.metrics)[j].value>>])]

\* xs.slice(0, n)
slice0(xs, n) == SubSeq(xs, 1, Min(Len(xs), n))

\* the block list without the slice
BuildBlocks_NoSlice(cases, language) ==
    <<HeaderBlock(language)>>
    \o [i \in 1..Len(cases) |-> SectionBlock(cases[i], i, language)]

\* [header, ...cases.map(section)].slice(0, 50)
BuildBlocks(cases, language) ==
    slice0(<<HeaderBlock(language)>>
           \o [i \in 1..Len(cases) |-> SectionBlock(cases[i], i, language)],
           BlockLimit)

(***************************************************************************)
(* Runner: the default input and the overrides of one invocation.          *)
(***************************************************************************)
defaultInput ==
    [focusKeyword |-> "commerce x influencer",
     minExamples |-> 3,
     language |-> "ja",
     metricFocus |-> <<"Sales", "GMV", "CVR">>,
     includeSources |-> TRUE]

\* { ...defaultInput, ...overrides }
Merge(defaults, overrides) ==
    [f \in DOMAIN defaults |->
        IF Has(overrides[f]) THEN Val(overrides[f]) ELSE defaults[f]]

\* the overrides a caller passes: each key absent or set
NoOverrides ==
    [focusKeyword |-> Absent, minExamples |-> Absent, language |-> Absent,
     metricFocus |-> Absent, includeSources |-> Absent]

Overrides ==
    { NoOverrides,
      [NoOverrides EXCEPT !.focusKeyword = Some("")],
      [NoOverrides EXCEPT !.includeSources = Some(FALSE)],
      [NoOverrides EXCEPT !.language = Some("en"), !.metricFocus = Some(<<"ROI">>)],
      [NoOverrides EXCEPT !.language = Some("fr")] }

Pending == [state |-> "pending", value |-> Absent, error |-> Absent]

\* a runner that hands back whatever the execution holds, failed or not
RunnerOutcome_NoThrow(exec) ==
    [state |-> "returned", value |-> exec.result, error |-> Absent]

\* what the runner does with the execution run.start resolved to
RunnerOutcome(exec) ==
    IF exec.status # "success"
    THEN IF exec.status = "failed"
         THEN [state |-> "threw", value |-> Absent, error |-> exec.error]
         ELSE [state |-> "threw", value |-> Absent,
               error |-> Some(Err("Suspended", 0))]
    ELSE [state |-> "returned", value |-> exec.result, error |-> Absent]

ExecSuccess(result) == [status |-> "success", result |-> Some(result), error |-> Absent]
ExecFailed(e) == [status |-> "failed", result |-> Absent, error |-> Some(e)]

(***************************************************************************)
(* The state machine.                                                      *)
(***************************************************************************)
Stages == 1..3

Init ==
    /\ variant \in {"market", "commerce"}
    /\ MODEL_NAME \in ModelNames
    /\ slackWebhook \in BOOLEAN
    /\ status = "Idle"
    /\ input = Absent
    /\ s1In = Absent /\ s1Out = Absent
    /\ s2In = Absent /\ s2Out = Absent
    /\ s3In = Absent
    /\ started = [k \in Stages |-> 0]
    /\ llmCalls = 0
    /\ webhookCalls = 0
    /\ collectResp = Absent
    /\ enrichResp = Absent
    /\ payload = Absent
    /\ delivery = "none"
    /\ summary = Absent
    /\ warned = FALSE
    /\ adapter = [k \in 1..2 |-> NotCalled]
    /\ thrown = Absent
    /\ execution = Absent
    /\ caller = Pending

\* an adapter that issues its model call a second time
ModelCall_Twice == llmCalls' = llmCalls + 2

\* the one outbound call of an adapter invocation: await generateText(...)
\* or await generateObject(...)
ModelCall == llmCalls' = llmCalls + 1

\* an engine that keeps the run in its stage when a step threw, to try again
Fail_Retry(e) ==
    /\ status' = status
    /\ thrown' = Some(e)
    /\ UNCHANGED <<execution, caller>>

\* a step threw (or its input was rejected): the run ends failed with that
\* error, run.start resolves and the runner, awaiting it, throws
Fail(e) ==
    /\ status' = "Failed"
    /\ thrown' = Some(e)
    /\ execution' = Some(ExecFailed(e))
    /\ caller' = RunnerOutcome(ExecFailed(e))

\* the last step returned: the run ends in success, run.start resolves and the
\* runner, awaiting it, returns
Succeed(result) ==
    /\ status' = "Succeeded"
    /\ execution' = Some(ExecSuccess(result))
    /\ caller' = RunnerOutcome(ExecSuccess(result))

\* runner called: merge the input, run.start, the engine checks the input of
\* Stage 1 and enters its execute, which awaits the adapter's model call
Start(overrides) ==
    /\ status = "Idle"
    /\ input' = Some(Merge(defaultInput, overrides))
    /\ LET v == Stage1Input(variant, Merge(defaultInput, overrides)) IN
        IF v.ok
        THEN /\ s1In' = v.value
             /\ started' = [started EXCEPT ![1] = @ + 1]
             /\ ModelCall
             /\ adapter' = [adapter EXCEPT
                               ![1].mode = ModeName(TextMode(variant, MODEL_NAME))]
             /\ status' = "Collecting"
             /\ UNCHANGED <<thrown, execution, caller>>
        ELSE /\ Fail(Err("InputValidation", 1))
             /\ UNCHANGED <<s1In, started, llmCalls, adapter>>
    /\ UNCHANGED <<variant, MODEL_NAME, slackWebhook, s1Out, s2In, s2Out, s3In,
                   webhookCalls, collectResp, enrichResp, payload, delivery,
                   summary, warned>>

\* Stage 1's model call settles: the adapter's result, Stage 1's return, the
\* engine's check of Stage 2's input, Stage 2's execute up to its model call
CollectResponse(resp) ==
    /\ status = "Collecting"
    /\ collectResp' = Some(resp)
    /\ LET g == generateStructuredObject(TextMode(variant, MODEL_NAME),
                                         "caseListSchema", resp, 1) IN
        IF ~g.ok
        THEN /\ Fail(Val(g.error))
             /\ adapter' = [adapter EXCEPT ![1].parses =
                               LocalParses(TextMode(variant, MODEL_NAME), resp)]
             /\ UNCHANGED <<s1Out, s2In, started, llmCalls>>
        ELSE LET out == StageReturn(Val(g.value), Val(s1In))
                 v == Stage2Input(out) IN
             /\ s1Out' = Some(out)
             /\ IF v.ok
                THEN /\ s2In' = v.value
                     /\ started' = [started EXCEPT ![2] = @ + 1]
                     /\ ModelCall
                     /\ adapter' = [adapter EXCEPT
                                       ![1].parses = LocalParses(
                                           TextMode(variant, MODEL_NAME), resp),
                                       ![2].mode = ModeName(
                                           TextMode(variant, MODEL_NAME))]
                     /\ status' = "Enriching"
                     /\ UNCHANGED <<thrown, execution, caller>>
                ELSE /\ Fail(Err("InputValidation", 2))
                     /\ adapter' = [adapter EXCEPT ![1].parses =
                                       LocalParses(TextMode(variant, MODEL_NAME), resp)]
                     /\ UNCHANGED <<s2In, started, llmCalls>>
    /\ UNCHANGED <<variant, MODEL_NAME, slackWebhook, input, s1In, s2Out, s3In,
                   webhookCalls, enrichResp, payload, delivery, summary, warned>>

\* a Stage 3 that treats a missing webhook as an error
Summarize_RequireWebhook(inputData) ==
    LET text == RenderSummary(inputData.cases, inputData.language,
                              inputData.includeSources) IN
    IF slackWebhook
    THEN /\ payload' = Some([text |-> text,
                             blocks |-> BuildBlocks(inputData.cases, inputData.language)])
         /\ webhookCalls' = webhookCalls + 1
         /\ delivery' = "pending"
         /\ summary' = Some(text)
         /\ status' = "Summarizing"
         /\ UNCHANGED <<warned, thrown, execution, caller>>
    ELSE /\ Fail(Err("WebhookError", 3))
         /\ UNCHANGED <<payload, webhookCalls, delivery, summary, warned>>

\* Stage 3's execute from its entry to the await of slackWebhook.send, or to
\* its return when no webhook is configured
Summarize(inputData) ==
    LET text == RenderSummary(inputData.cases, inputData.language,
                              inputData.includeSources) IN
    IF slackWebhook
    THEN /\ payload' = Some([text |-> text,
                             blocks |-> BuildBlocks(inputData.cases, inputData.language)])
         /\ webhookCalls' = webhookCalls + 1
         /\ delivery' = "pending"
         /\ summary' = Some(text)
         /\ status' = "Summarizing"
         /\ UNCHANGED <<warned, thrown, execution, caller>>
    ELSE /\ warned' = TRUE
         /\ Succeed([summary |-> text,
                     sentToSlack |-> FALSE,
                     cases |-> inputData.cases])
         /\ UNCHANGED <<payload, webhookCalls, delivery, summary, thrown>>

\* Stage 2's model call settles: the adapter's result, Stage 2's return, the
\* engine's check of Stage 3's input, Stage 3's execute up to its first await
EnrichResponse(resp) ==
    /\ status = "Enriching"
    /\ enrichResp' = Some(resp)
    /\ adapter' = [adapter EXCEPT ![2].parses =
                      LocalParses(TextMode(variant, MODEL_NAME), resp)]
    /\ LET g == generateStructuredObject(TextMode(variant, MODEL_NAME),
                                         "enrichedCaseListSchema", resp, 2) IN
        IF ~g.ok
        THEN /\ Fail(Val(g.error))
             /\ UNCHANGED <<s2Out, s3In, started, payload, webhookCalls, delivery,
                          summary, warned>>
        ELSE LET out == StageReturn(Val(g.value), Val(s2In))
                 v == Stage3Input(out) IN
             /\ s2Out' = Some(out)
             /\ IF v.ok
                THEN /\ s3In' = v.value
                     /\ started' = [started EXCEPT ![3] = @ + 1]
                     /\ Summarize(Val(v.value))
                ELSE /\ Fail(Err("InputValidation", 3))
                     /\ UNCHANGED <<s3In, started, payload, webhookCalls, delivery,
                                  summary, warned>>
    /\ UNCHANGED <<variant, MODEL_NAME, slackWebhook, input, s1In, s1Out, s2In,
                   llmCalls, collectResp>>

\* a Stage 3 that catches the rejection of slackWebhook.send and goes on
WebhookResponse_Caught(delivered) ==
    /\ status = "Summarizing"
    /\ delivery = "pending"
    /\ delivery' = IF delivered THEN "ok" ELSE "failed"
    /\ Succeed([summary |-> Val(summary),
                sentToSlack |-> TRUE,
                cases |-> Val(s3In).cases])
    /\ UNCHANGED <<variant, MODEL_NAME, slackWebhook, input, s1In, s1Out, s2In,
                   s2Out, s3In, started, llmCalls, webhookCalls, collectResp,
                   enrichResp, payload, summary, warned, adapter, thrown>>

\* slackWebhook.send settles: sentToSlack = true and Stage 3 returns, or the
\* rejection leaves execute uncaught
WebhookResponse(delivered) ==
    /\ status = "Summarizing"
    /\ delivery = "pending"
    /\ delivery' = IF delivered THEN "ok" ELSE "failed"
    /\ IF delivered
       THEN /\ Succeed([summary |-> Val(summary),
                        sentToSlack |-> TRUE,
                        cases |-> Val(s3In).cases])
            /\ UNCHANGED thrown
       ELSE Fail(Err("WebhookError", 3))
    /\ UNCHANGED <<variant, MODEL_NAME, slackWebhook, input, s1In, s1Out, s2In,
                   s2Out, s3In, started, llmCalls, webhookCalls, collectResp,
                   enrichResp, payload, summary, warned, adapter>>

Next ==
    \/ \E o \in Overrides : Start(o)
    \/ \E r \in CollectResponses : CollectResponse(r)
    \/ \E r \in EnrichResponses : EnrichResponse(r)
    \/ \E d \in BOOLEAN : WebhookResponse(d)

Spec == Init /\ [][Next]_vars

\* every outbound call that is awaited eventually settles, with a response
\* or with a failure
LiveSpec ==
    /\ Spec
    /\ WF_vars(\E r \in CollectResponses : CollectResponse(r))
    /\ WF_vars(\E r \in EnrichResponses : EnrichResponse(r))
    /\ WF_vars(\E d \in BOOLEAN : WebhookResponse(d))

(***************************************************************************)
(* Properties.                                                             *)
(***************************************************************************)
Result == Val(caller.value)

\* the numbered title lines of a rendered summary, in order
TitleLines(text) == SelectSeq(text, LAMBDA l : l.k = "title")

\* C1: the runner returns a result only when the run ended Succeeded with
\* all three stages entered, and then it is the execution's result; when the
\* run ended Failed the runner throws exactly the error the failing stage
\* raised and hands back no result; an execution in any other status makes
\* the runner throw as well, whatever result it carries.
C1_ResultOnlyOnSuccess ==
    /\ caller.state = "returned" =>
          /\ status = "Succeeded"
          /\ \A k \in Stages : started[k] = 1
          /\ Has(caller.value)
          /\ caller.value = Val(execution).result
          /\ thrown = Absent
    /\ status = "Failed" =>
          /\ caller.state = "threw"
          /\ Has(thrown)
          /\ caller.error = thrown
          /\ caller.value = Absent
          /\ Val(execution).result = Absent
    /\ \A st \in {"suspended", "paused", "running"} :
          LET o == RunnerOutcome([status |-> st,
                                  result |-> Some([summary |-> <<>>,
                                                   sentToSlack |-> FALSE,
                                                   cases |-> <<eA>>]),
                                  error |-> Absent]) IN
          o.state = "threw" /\ o.value = Absent /\ Has(o.error)

\* C1 witness: a run that failed at the webhook delivery, after the summary
\* and the cases of a result had been built, and whose caller got the error.
C1_Witness ==
    /\ status = "Failed"
    /\ Has(summary)
    /\ Has(s3In)
    /\ caller.state = "threw"
    /\ caller.error = Some(Err("WebhookError", 3))

\* C2: no stage is entered twice; Stage 2 is entered only after Stage 1
\* returned, with Stage 1's return value as its input; Stage 3 is entered
\* only after Stage 2 returned, with Stage 2's return value as its input; a
\* run that succeeded entered all three, and a run still in a stage has
\* entered exactly the stages up to that one.
C2_StageOrder ==
    /\ \A k \in Stages : started[k] <= 1
    /\ started[1] = 1 <=> Has(s1In)
    /\ started[2] = 1 <=> Has(s2In)
    /\ started[3] = 1 <=> Has(s3In)
    /\ started[2] = 1 => started[1] = 1 /\ Has(s1Out) /\ s2In = s1Out
    /\ started[3] = 1 => started[2] = 1 /\ Has(s2Out) /\ s3In = s2Out
    /\ Has(s1Out) => started[1] = 1
    /\ Has(s2Out) => started[2] = 1
    /\ status = "Collecting" => started = <<1, 0, 0>>
    /\ status = "Enriching" => started = <<1, 1, 0>>
    /\ status \in {"Summarizing", "Succeeded"} => started = <<1, 1, 1>>

\* C2 witness: a run that succeeded with two different cases passed along.
C2_Witness ==
    /\ status = "Succeeded"
    /\ Len(Val(s1Out).cases) = 2
    /\ Val(s1Out).cases[1] # Val(s1Out).cases[2]
    /\ Len(Val(s3In).cases) = 2

\* C3: with n >= 1 cases entering Stage 3, the payload handed to the webhook
\* has min(n + 1, 50) blocks: a header first, then the sections of the first
\* min(n, 49) cases in order; the returned summary has n entries numbered
\* 1..n and the returned cases are all n cases in their order.
C3_BlockLimit ==
    Has(payload) =>
        LET cases == Val(s3In).cases
            n == Len(cases)
            blocks == Val(payload).blocks IN
        /\ n >= 1
        /\ Len(blocks) = Min(n + 1, 50)
        /\ blocks[1].type = "header"
        /\ \A i \in 2..Len(blocks) :
              /\ blocks[i].type = "section"
              /\ blocks[i].n = i - 1
              /\ blocks[i] = SectionBlock(cases[i - 1], i - 1, Val(s3In).language)
        /\ Len(TitleLines(Val(payload).text)) = n
        /\ caller.state = "returned" =>
              /\ Result.cases = cases
              /\ Result.cases = Val(s2Out).cases
              /\ Len(TitleLines(Result.summary)) = n
              /\ \A i \in 1..n :
                    /\ TitleLines(Result.summary)[i].n = i
                    /\ TitleLines(Result.summary)[i].s = <<Val(cases[i].brand)>>

\* C3 witness: a result returned after a delivery of a payload built from
\* more than 49 cases.
C3_Witness ==
    /\ Has(payload)
    /\ Len(Val(s3In).cases) > 50
    /\ Len(Val(payload).blocks) = 50
    /\ caller.state = "returned"

\* C4: with no webhook configured no delivery is ever attempted, and a run
\* that entered Stage 3 succeeded: the caller got a result with
\* sentToSlack = FALSE, the rendered summary of all cases and the cases of
\* Stage 2's output, after the warning.
C4_NoWebhook ==
    ~slackWebhook =>
        /\ webhookCalls = 0
        /\ payload = Absent
        /\ delivery = "none"
        /\ thrown # Some(Err("WebhookError", 3))
        /\ started[3] = 1 =>
              /\ status = "Succeeded"
              /\ warned
              /\ caller.state = "returned"
              /\ Result.sentToSlack = FALSE
              /\ Result.cases = Val(s2Out).cases
              /\ Len(Result.cases) >= 1
              /\ Result.summary = RenderSummary(Val(s2Out).cases, Val(s2Out).language,
                                                Val(s2Out).includeSources)
              /\ Len(TitleLines(Result.summary)) = Len(Result.cases)

\* C4 witness: a run without webhook that succeeded.
C4_Witness ==
    /\ ~slackWebhook
    /\ status = "Succeeded"
    /\ caller.state = "returned"
    /\ Result.sentToSlack = FALSE
    /\ warned

\* C5: a returned result has sentToSlack = TRUE only if exactly one delivery
\* was made and it succeeded (and with a webhook configured every returned
\* result is such a one); when the delivery fails the run is Failed with the
\* delivery's error and the caller gets no result.
C5_Delivery ==
    /\ (caller.state = "returned" /\ Result.sentToSlack) =>
          /\ slackWebhook
          /\ webhookCalls = 1
          /\ delivery = "ok"
    /\ (caller.state = "returned" /\ slackWebhook) => Result.sentToSlack
    /\ delivery = "failed" =>
          /\ status = "Failed"
          /\ thrown = Some(Err("WebhookError", 3))
          /\ caller.state = "threw"
          /\ caller.error = thrown
          /\ caller.value = Absent
          /\ Val(execution).result = Absent
    /\ webhookCalls <= 1

\* C5 witness: a delivery that failed.
C5_Witness ==
    /\ slackWebhook
    /\ delivery = "failed"
    /\ webhookCalls = 1
    /\ caller.state = "threw"

\* the cases of a response, if it is an object with a "cases" array
HasCases(resp) == Has(resp) /\ Val(resp).kind = "object" /\ Has(Val(resp).cases)
CasesOf(resp) == Val(Val(resp).cases)

ValidationKinds == {"ParseError", "NoObjectGenerated", "InputValidation"}

\* C6: in both modes the case list Stage 2 is entered with has 1..6 cases; a
\* Stage 1 response with 0 or with more than 6 cases fails the run before
\* Stage 2 is entered (one model call only); a response of well-formed cases
\* that has at least 1 and fewer than minExamples cases is accepted.
C6_CaseCount ==
    /\ Has(s2In) => Len(Val(s2In).cases) \in 1..6
    /\ (HasCases(collectResp) /\ Len(CasesOf(collectResp)) \notin 1..6) =>
          /\ status = "Failed"
          /\ started[2] = 0
          /\ llmCalls = 1
          /\ Val(thrown).kind \in ValidationKinds
    /\ ( /\ HasCases(collectResp)
         /\ Len(CasesOf(collectResp)) >= 1
         /\ Len(CasesOf(collectResp)) < Val(s1In).minExamples
         /\ \A i \in 1..Len(CasesOf(collectResp)) :
               baseCaseSchema_ok(CasesOf(collectResp)[i]) ) =>
          /\ started[2] = 1
          /\ Len(Val(s2In).cases) = Len(CasesOf(collectResp))

\* C6 witness: in structured mode a response with more than 6 cases failed
\* the run.
C6_Witness ==
    /\ ~TextMode(variant, MODEL_NAME)
    /\ HasCases(collectResp)
    /\ Len(CasesOf(collectResp)) > 6
    /\ status = "Failed"

\* a case whose influencers list is empty or missing
LacksInfluencers(c) == ~Has(c.influencers) \/ Len(Val(c.influencers)) = 0

\* C7: every case Stage 2 is entered with has at least one influencer; a
\* Stage 1 response with a case whose influencers are empty or missing fails
\* the run with a validation error and Stage 2's model call is not issued.
C7_Influencers ==
    /\ Has(s2In) => \A i \in 1..Len(Val(s2In).cases) :
                       ~LacksInfluencers(Val(s2In).cases[i])
    /\ ( /\ HasCases(collectResp)
         /\ \E i \in 1..Len(CasesOf(collectResp)) :
               LacksInfluencers(CasesOf(collectResp)[i]) ) =>
          /\ status = "Failed"
          /\ Val(thrown).kind \in ValidationKinds
          /\ started[2] = 0
          /\ llmCalls = 1
          /\ s2In = Absent

\* C7 witness: in structured mode a response with a case without influencers
\* failed the run.
C7_Witness ==
    /\ ~TextMode(variant, MODEL_NAME)
    /\ HasCases(collectResp)
    /\ \E i \in 1..Len(CasesOf(collectResp)) :
          LacksInfluencers(CasesOf(collectResp)[i])
    /\ status = "Failed"

\* a case whose metrics list is empty or missing
LacksMetrics(c) == ~Has(c.metrics) \/ Len(Val(c.metrics)) = 0

\* C8: every case Stage 3 is entered with has at least one metric; a Stage 2
\* response with a case whose metrics are empty or missing fails the run
\* with a validation error, Stage 3 is not entered, no summary is built and
\* no delivery is attempted.
C8_Metrics ==
    /\ Has(s3In) => \A i \in 1..Len(Val(s3In).cases) :
                       ~LacksMetrics(Val(s3In).cases[i])
    /\ ( /\ HasCases(enrichResp)
         /\ \E i \in 1..Len(CasesOf(enrichResp)) :
               LacksMetrics(CasesOf(enrichResp)[i]) ) =>
          /\ status = "Failed"
          /\ Val(thrown).kind \in ValidationKinds
          /\ started[3] = 0
          /\ s3In = Absent
          /\ summary = Absent
          /\ payload = Absent
          /\ webhookCalls = 0
          /\ caller.value = Absent

\* C8 witness: in text mode a response with a well-formed and a metric-less
\* case failed the run.
C8_Witness ==
    /\ TextMode(variant, MODEL_NAME)
    /\ HasCases(enrichResp)
    /\ Len(CasesOf(enrichResp)) = 2
    /\ ~LacksMetrics(CasesOf(enrichResp)[1])
    /\ LacksMetrics(CasesOf(enrichResp)[2])
    /\ status = "Failed"

\* the fields of a case that originate in Stage 1
BaseFields(c) ==
    [brand |-> c.brand, summary |-> c.summary,
     influencers |-> c.influencers, sources |-> c.sources]

\* C9: Stage 2's output has, case by case and in order, the base fields of
\* Stage 1's output; only metrics are added.
C9_BaseFieldsKept ==
    Has(s2Out) =>
        /\ Len(Val(s2Out).cases) = Len(Val(s1Out).cases)
        /\ \A i \in 1..Len(Val(s2Out).cases) :
              BaseFields(Val(s2Out).cases[i]) = BaseFields(Val(s1Out).cases[i])

Terminal == {"Succeeded", "Failed"}

\* C11: a run that was started eventually is Succeeded or Failed, given
\* that every awaited call settles; and no step is ever taken from
\* Succeeded or Failed, so a terminal state is never left and nothing is
\* retried from it.
C11_Terminates ==
    /\ (status # "Idle") ~> (status \in Terminal)
    /\ [][status \notin Terminal]_vars

\* C11 witness: a run that went through all three stages and the delivery
\* and is Succeeded.
C11_Witness ==
    /\ status = "Succeeded"
    /\ delivery = "ok"
    /\ llmCalls = 2
    /\ caller.state = "returned"

\* the summary Stage 3 rendered, once it has: in the payload or in the result
RenderedSummary == IF Has(payload) THEN Val(payload).text ELSE Result.summary

\* the number of the entry (the last title line at or before p) line p is in
EntryOfLine(text, p) ==
    text[CHOOSE q \in 1..p :
            /\ text[q].k = "title"
            /\ \A r \in (q + 1)..p : text[r].k # "title"].n

SourcesLineIndexes(text) == { p \in 1..Len(text) : text[p].k = "sources" }

\* C12: with includeSources false the summary has no sources line at all;
\* with includeSources true it has one sources line in the entry of each
\* case that has at least one source, carrying the label of the language
\* and that case's URLs, and none in the entries of the other cases.
C12_SourcesLines ==
    (Has(s3In) /\ status # "Failed") =>
        LET cases == Val(s3In).cases
            text == RenderedSummary
            withSources == { i \in 1..Len(cases) :
                               Has(cases[i].sources) /\ Len(Val(cases[i].sources)) > 0 } IN
        IF Val(input).includeSources
        THEN /\ { EntryOfLine(text, p) : p \in SourcesLineIndexes(text) } = withSources
             /\ Cardinality(SourcesLineIndexes(text)) = Cardinality(withSources)
             /\ \A p \in SourcesLineIndexes(text) :
                   text[p].s = <<IF Val(input).language = "ja" THEN "Sanko" ELSE "Sources">>
                               \o Val(cases[EntryOfLine(text, p)].sources)
        ELSE SourcesLineIndexes(text) = {}

\* C12 witness: a result whose input had includeSources false and whose
\* cases include one with sources and one without.
C12_Witness ==
    /\ caller.state = "returned"
    /\ Val(input).includeSources = FALSE
    /\ Len(Result.cases) = 2
    /\ Has(Result.cases[1].sources)
    /\ ~Has(Result.cases[2].sources)

\* per model-calling stage: the response its call got, what its execute
\* returned, and the schema it gave the adapter
StageResp(k) == IF k = 1 THEN collectResp ELSE enrichResp
StageOut(k) == IF k = 1 THEN s1Out ELSE s2Out
StageSchema(k) == IF k = 1 THEN "caseListSchema" ELSE "enrichedCaseListSchema"

\* what a stage's execute returned satisfies the schema it gave the adapter
OutConforms(k) ==
    Has(StageOut(k)) =>
        SchemaParse(StageSchema(k), RespObject(Some(Val(StageOut(k)).cases))).ok

C14_TextModeRejects ==
    \A k \in 1..2 :
        (/\ adapter[k].mode = "text"
         /\ Has(StageResp(k))
         /\ \/ Val(StageResp(k)).kind = "malformed"
            \/ /\ Val(StageResp(k)).kind = "object"
               /\ ~SchemaParse(StageSchema(k), Val(StageResp(k))).ok) =>
            /\ ~Has(StageOut(k))
            /\ started[k + 1] = 0
            /\ status = "Failed"
            /\ thrown = Some(Err("ParseError", k))
            /\ caller.state = "threw"

\* C14 witness: the market-research pipeline with model "gpt-5-mini", whose
\* Stage 1 call was answered with text that is no JSON; the run has failed.
C14_Witness ==
    /\ variant = "market"
    /\ MODEL_NAME = <<"g", "p", "t", "-", "5", "-", "m", "i", "n", "i">>
    /\ adapter[1].mode = "text"
    /\ collectResp = Some(RespMalformed)
    /\ status = "Failed"
    /\ ~Has(s1Out)

\* the stages whose adapter call has been made
Called == { k \in 1..2 : adapter[k].mode # "none" }

\* C15 as stated: in every pipeline the adapter is in text mode exactly when
\* the model name contains "search" or starts with "gpt-5", in structured
\* mode otherwise, and both stages of a run use the same mode.
C15_ModeByName ==
    /\ \A k \in Called :
          adapter[k].mode =
              IF includes(MODEL_NAME, Str_search) \/ startsWith(MODEL_NAME, Str_gpt5)
              THEN "text" ELSE "structured"
    /\ \A j, k \in Called : adapter[j].mode = adapter[k].mode

\* C15 amended: the mode is a function of the model name and the pipeline.
\* The market-research adapter is in text mode exactly when the name
\* contains "search" or starts with "gpt-5"; the commerce-influencer adapter
\* exactly when the name contains "search".  Otherwise the mode is
\* structured, and both stages of a run use the same mode.
C15_ModeByNameAndVariant ==
    /\ \A k \in Called :
          adapter[k].mode =
              IF \/ includes(MODEL_NAME, Str_search)
                 \/ variant = "market" /\ startsWith(MODEL_NAME, Str_gpt5)
              THEN "text" ELSE "structured"
    /\ \A j, k \in Called : adapter[j].mode = adapter[k].mode

\* C15 witness: the commerce-influencer pipeline with model "gpt-5-mini" has
\* made both its model calls, each in structured mode.
C15_Witness ==
    /\ variant = "commerce"
    /\ startsWith(MODEL_NAME, Str_gpt5)
    /\ ~includes(MODEL_NAME, Str_search)
    /\ adapter[1].mode = "structured"
    /\ adapter[2].mode = "structured"

\* the values at the stage boundaries so far: each stage's input and return
Boundaries == {s1In, s1Out, s2In, s2Out, s3In}

\* C16: at every stage boundary the carry-through fields language,
\* metricFocus and includeSources have the values of the run's input,
\* whatever the model answered.
C16_CarryThrough ==
    \A b \in Boundaries :
        Has(b) =>
            /\ Val(b).language = Val(input).language
            /\ Val(b).metricFocus = Val(input).metricFocus
            /\ Val(b).includeSources = Val(input).includeSources

\* C16 witness: a run started with language "en" and metricFocus <<"ROI">>
\* (neither the default) has reached Stage 3 and succeeded.
C16_Witness ==
    /\ status = "Succeeded"
    /\ Has(s3In)
    /\ Val(input).language = "en"
    /\ Val(input).metricFocus = <<"ROI">>
    /\ Val(s3In).language = "en"

\* C17: each of Stage 1 and Stage 2 executes at most once and has issued
\* exactly one model call when it has, Stage 3 has issued one webhook call
\* exactly when it executed with a webhook configured, so a run makes at
\* most 2 LLM calls and at most 1 webhook call; a call that failed is not
\* issued again: the run is Failed with that failure and the counts stay.
C17_CallCounts ==
    /\ \A k \in Stages : started[k] <= 1
    /\ llmCalls = started[1] + started[2]
    /\ llmCalls <= 2
    /\ webhookCalls <= 1
    /\ webhookCalls = IF started[3] = 1 /\ slackWebhook THEN 1 ELSE 0
    /\ \A k \in 1..2 :
          (Has(StageResp(k)) /\ Val(StageResp(k)).kind = "failure") =>
              /\ status = "Failed"
              /\ thrown = Some(Err("UpstreamError", k))
              /\ llmCalls = k
              /\ started[k + 1] = 0
              /\ webhookCalls = 0
    /\ delivery = "failed" =>
          /\ status = "Failed"
          /\ thrown = Some(Err("WebhookError", 3))
          /\ webhookCalls = 1
          /\ llmCalls = 2

\* C17 witness: Stage 2's model call failed after Stage 1's succeeded; the
\* run is Failed after 2 LLM calls and no webhook call.
C17_Witness ==
    /\ enrichResp = Some(RespFailure)
    /\ status = "Failed"
    /\ llmCalls = 2
    /\ webhookCalls = 0
    /\ started = <<1, 1, 0>>

====
